---- MODULE Spec2Model ----
(***************************************************************************)
(* Model of the backend gateway of anymind-challenges                      *)
(* (src/backend/src/index.ts): the in-memory fixed-window rate limiter,    *)
(* the /aggregated-data and /weather handlers, and the in-process seeding  *)
(* routine that runs at startup.                                           *)
(* The standalone seeding scripts (src/backend/src/seed.ts and its         *)
(* multi-city variant src/unnamed/part_002) are modelled beside it: one    *)
(* step per await, against their own Postgres store.                       *)
(* Two parts of the dashboard are modelled as well: the debounced search   *)
(* box of NewsSection (src/unnamed/part_004) and updateWeather of the App  *)
(* component (src/frontend/src/App.tsx), which calls GET /weather.         *)
(*                                                                         *)
(* Time is the value Date.now() returns, in milliseconds.  Every request   *)
(* arrives Deltas milliseconds after the previous event.  JSON objects are *)
(* records; a key that is absent from an object is absent from the         *)
(* record's DOMAIN.  Table rows carry the inserted columns (the            *)
(* autoincrement id and fetched_at default are left out).                  *)
(***************************************************************************)
EXTENDS Integers, Sequences, FiniteSets, TLC

VARIABLES
    now,             \* Date.now() at the latest request
    rateLimitStore,  \* Map<ip, {count, resetTime}>: a function on the keys present
    db,              \* the three tables: [crypto, weather, news], sequences of rows
    seedPc,          \* position of fetchAndStoreData(): start, crypto, weather, news, done
    listening,       \* app.listen() has run
    pending,         \* /weather handlers suspended at the upstream fetch
    chk,             \* the latest rate-limit check: what rateLimiter saw and did
    ev,              \* the latest response sent
    allowedAt,       \* per key: times of its Allowed requests of the last WINDOW_MS
    win,             \* per key: start of its current window and requests made in it
    aggLast,         \* the latest /aggregated-data response, if no seed step and no
                     \* /weather call came after it
    seedIn,          \* what each fetch of fetchAndStoreData() settled with, so far
    variant,         \* the program that runs: index.ts, seed.ts or part_002
    env,             \* Bun.env of a standalone seeding script
    pg,              \* the Postgres store of the standalone scripts: three tables
    sd,              \* a standalone script's run: position, loop index, client
                     \* and pool use, log output, store operations and inputs so far
    news,            \* NewsSection: keyword, debouncedKeyword, its pending timers
    app              \* App: data, loading, error, the updateWeather call in flight

gatewayVars == <<now, rateLimitStore, db, seedPc, listening, pending, chk, ev,
                 allowedAt, win, aggLast, seedIn>>
scriptVars == <<variant, env, pg, sd>>
dashboardVars == <<news, app>>
vars == <<now, rateLimitStore, db, seedPc, listening, pending, chk, ev,
          allowedAt, win, aggLast, seedIn, variant, env, pg, sd, news, app>>

----------------------------------------------------------------------------
(* Bounds of the model *)

MaxWindows == 2    \* the clock runs for this many window lengths
MaxPending == 1    \* /weather calls in flight at once
MaxCities == 2     \* cities the multi-city seeding script goes through
MaxRuns == 2       \* runs of a standalone seeding script against one store

----------------------------------------------------------------------------
(* Program constants *)

RATE_LIMIT == 5
WINDOW_MS == 60 * 1000

TooManyRequests == [error |-> "Too many requests, please wait before retrying."]
DataNotAvailable == [error |-> "Data not available."]
InvalidWeatherData == [error |-> "Invalid weather data."]
FailedToFetchWeather == [error |-> "Failed to fetch weather."]
DefaultCity == "New York"
SeedCity == "Ho Chi Minh"

----------------------------------------------------------------------------
(* Inputs *)

\* Inter-arrival times of the rate-limited requests: the same millisecond,
\* exactly one window later, one millisecond more than a window later.
Deltas == {0, WINDOW_MS, WINDOW_MS + 1}
\* The inter-arrival times used where the handlers, not the clock, are examined:
\* inside the current window, and after it has expired.
HandlerDeltas == {0, WINDOW_MS + 1}
\* The clock stops here.
MaxTime == MaxWindows * (WINDOW_MS + 1)

\* req.ip / req.socket.remoteAddress of the clients ("" stands for undefined).
Client1 == [ip |-> "10.0.0.1", remoteAddress |-> "10.0.0.1"]
Client2 == [ip |-> "", remoteAddress |-> ""]
Clients == {Client1, Client2}

\* req.query of GET /weather: no city parameter, an empty one, a named city.
Queries == {<<>>, [city |-> ""], [city |-> "Hanoi"]}

\* Bodies the crypto upstream can answer with.
CryptoPayloads ==
    {[bitcoin |-> [usd |-> 50000, usd_market_cap |-> 1000000],
      ethereum |-> [usd |-> 3000, usd_market_cap |-> 400000]],
     [bitcoin |-> [usd |-> 50000, usd_market_cap |-> 1000000]],
     [status |-> [error_code |-> 429]]}

\* Bodies the weather upstream can answer with.
WeatherPayloads ==
    {[main |-> [temp |-> 30], weather |-> <<[main |-> "Clear"]>>],
     [main |-> [temp |-> 25], weather |-> <<[main |-> "Rain"], [main |-> "Clouds"]>>],
     [main |-> [temp |-> 30], weather |-> <<[main |-> ""]>>],
     [main |-> [temp |-> 30], weather |-> <<>>],
     [cod |-> "404", message |-> "city not found"]}

Article1 == [title |-> "A", source |-> [name |-> "S1"], url |-> "https://a.example/1"]
Article2 == [title |-> "B", source |-> [name |-> "S2"], url |-> "https://b.example/2"]
BadUrlArticle == [title |-> "C", source |-> [name |-> "S3"], url |-> "not a url"]
ValidUrls == {"https://a.example/1", "https://b.example/2"}

\* Bodies the news upstream can answer with.
NewsPayloads ==
    {[articles |-> <<Article1, Article2>>],
     [articles |-> <<Article1>>],
     [articles |-> <<BadUrlArticle>>],
     [articles |-> <<>>],
     [status |-> "error", message |-> "apiKeyInvalid"]}

\* What `await fetch(...)` followed by `await res.json()` can do: reject with
\* an Error (with or without a message), or yield a decoded body.
FetchOutcomes(payloads) ==
    {[kind |-> "reject", message |-> "Unable to connect"],
     [kind |-> "reject", message |-> ""]}
        \cup {[kind |-> "json", body |-> p] : p \in payloads}

\* Rows left in app.db by an earlier run of the process.
StaleDb ==
    [crypto |-> <<[name |-> "Stale", symbol |-> "OLD", price |-> 1, market_cap |-> 1]>>,
     weather |-> <<[city |-> "Stale", temperature |-> 0, condition |-> "Old"]>>,
     news |-> <<[title |-> "Stale", source |-> "Old", url |-> "https://old.example"]>>]
EmptyDb == [crypto |-> <<>>, weather |-> <<>>, news |-> <<>>]

----------------------------------------------------------------------------
(* Rate limiter *)

\* const ip = req.ip || req.socket.remoteAddress || "unknown"
ClientKey(c) ==
    IF c.ip # "" THEN c.ip
    ELSE IF c.remoteAddress # "" THEN c.remoteAddress
    ELSE "unknown"

Keys == {ClientKey(c) : c \in Clients}

\* Map.prototype.set
MapSetEvicts(store, k, v) == [x \in {k} |-> v]
MapSet(store, k, v) ==
    [x \in DOMAIN store \cup {k} |-> IF x = k THEN v ELSE store[x]]

WindowExpiredInclusive(record, t) == t >= record.resetTime
\* now > record.resetTime
WindowExpired(record, t) == t > record.resetTime

\* { count: 0, resetTime: now + WINDOW_MS }
FreshRecord(t) == [count |-> 0, resetTime |-> t + WINDOW_MS]

\* let record = rateLimitStore.get(ip); if (!record || now > record.resetTime) record = {...}
CurrentRecordAnyKey(store, ip, t) ==
    LET known == IF ip \in DOMAIN store THEN ip
                 ELSE IF DOMAIN store # {} THEN CHOOSE k \in DOMAIN store : TRUE
                 ELSE ip
    IN  IF known \notin DOMAIN store \/ WindowExpired(store[known], t)
        THEN FreshRecord(t)
        ELSE store[known]
CurrentRecord(store, ip, t) ==
    IF ip \notin DOMAIN store \/ WindowExpired(store[ip], t)
    THEN FreshRecord(t)
    ELSE store[ip]

\* record.count > RATE_LIMIT
OverLimit(record) == record.count > RATE_LIMIT

rateLimiterCountsDenied(store, ip, t) ==
    LET record == CurrentRecord(store, ip, t) IN
    IF OverLimit(record)
    THEN [denied |-> TRUE, next |-> FALSE,
          store |-> MapSet(store, ip, [record EXCEPT !.count = @ + 1])]
    ELSE [denied |-> FALSE, next |-> TRUE,
          store |-> MapSet(store, ip, [record EXCEPT !.count = @ + 1])]
rateLimiterLostIncrement(store, ip, t) ==
    LET record == CurrentRecord(store, ip, t) IN
    IF OverLimit(record)
    THEN [denied |-> TRUE, next |-> FALSE, store |-> store]
    ELSE [denied |-> FALSE, next |-> TRUE,
          store |-> IF ip \in DOMAIN store /\ record.count = 2
                    THEN store
                    ELSE MapSet(store, ip, [record EXCEPT !.count = @ + 1])]
rateLimiterFallThrough(store, ip, t) ==
    LET record == CurrentRecord(store, ip, t) IN
    IF OverLimit(record)
    THEN [denied |-> TRUE, next |-> TRUE, store |-> store]
    ELSE [denied |-> FALSE, next |-> TRUE,
          store |-> MapSet(store, ip, [record EXCEPT !.count = @ + 1])]
rateLimiterDeniedExtends(store, ip, t) ==
    LET record == CurrentRecord(store, ip, t) IN
    IF OverLimit(record)
    THEN [denied |-> TRUE, next |-> FALSE,
          store |-> MapSet(store, ip, [record EXCEPT !.resetTime = t + WINDOW_MS])]
    ELSE [denied |-> FALSE, next |-> TRUE,
          store |-> MapSet(store, ip, [record EXCEPT !.count = @ + 1])]
\* The middleware: denied = it answered 429; next = it called next();
\* store = rateLimitStore afterwards.
rateLimiter(store, ip, t) ==
    LET record == CurrentRecord(store, ip, t) IN
    IF OverLimit(record)
    THEN [denied |-> TRUE, next |-> FALSE, store |-> store]
    ELSE [denied |-> FALSE, next |-> TRUE,
          store |-> MapSet(store, ip, [record EXCEPT !.count = @ + 1])]

----------------------------------------------------------------------------
(* GET /aggregated-data *)

\* SELECT * FROM t
SelectAll(t) == t
\* SELECT * FROM t LIMIT 1
SelectLimit1(t) == IF Len(t) = 0 THEN <<>> ELSE <<t[1]>>

DataMissingIgnoresNews(cryptos, weathers, newsItems) ==
    Len(cryptos) = 0 \/ Len(weathers) = 0
\* cryptos.length === 0 || weathers.length === 0 || newsItems.length === 0
DataMissing(cryptos, weathers, newsItems) ==
    Len(cryptos) = 0 \/ Len(weathers) = 0 \/ Len(newsItems) = 0

AggregatedFirstCoin(cryptos, weathers, newsItems) ==
    [crypto |-> <<cryptos[1]>>, weather |-> weathers[1], latest_news |-> newsItems]
\* const aggregated = { crypto: cryptos, weather: weathers[0], latest_news: newsItems }
Aggregated(cryptos, weathers, newsItems) ==
    [crypto |-> cryptos, weather |-> weathers[1], latest_news |-> newsItems]

\* The handler: the response for the store contents d.
aggregatedData(d) ==
    LET cryptos == SelectAll(d.crypto)
        weathers == SelectLimit1(d.weather)
        newsItems == SelectAll(d.news)
    IN  IF DataMissing(cryptos, weathers, newsItems)
        THEN [status |-> 500, body |-> DataNotAvailable]
        ELSE [status |-> 200, body |-> Aggregated(cryptos, weathers, newsItems)]

AggregatedDataRefetches(d) ==
    IF DataMissing(d.crypto, d.weather, d.news) THEN StaleDb ELSE d
AggregatedDataConsumesNews(d) == [d EXCEPT !.news = <<>>]
\* The store after the handler ran: it only SELECTs.
AggregatedDataStore(d) == d

----------------------------------------------------------------------------
(* Schema validators (zod): parse either throws or yields the known keys *)

HasKeys(o, ks) == ks \subseteq DOMAIN o
Threw == [ok |-> FALSE]

IsCoin(o, k) == HasKeys(o, {k}) /\ HasKeys(o[k], {"usd", "usd_market_cap"})
ParsedCoin(c) == [usd |-> c.usd, usd_market_cap |-> c.usd_market_cap]
\* z.object({ bitcoin: {usd, usd_market_cap}, ethereum: {usd, usd_market_cap} })
CryptoApiSchema(p) ==
    IF IsCoin(p, "bitcoin") /\ IsCoin(p, "ethereum")
    THEN [ok |-> TRUE,
          data |-> [bitcoin |-> ParsedCoin(p.bitcoin), ethereum |-> ParsedCoin(p.ethereum)]]
    ELSE Threw

\* z.object({ main: z.object({temp}), weather: z.array(z.object({main})).nonempty() })
WeatherApiSchema(p) ==
    IF /\ HasKeys(p, {"main", "weather"})
       /\ HasKeys(p.main, {"temp"})
       /\ Len(p.weather) > 0
       /\ \A i \in DOMAIN p.weather : HasKeys(p.weather[i], {"main"})
    THEN [ok |-> TRUE,
          data |-> [main |-> [temp |-> p.main.temp],
                    weather |-> [i \in DOMAIN p.weather |-> [main |-> p.weather[i].main]]]]
    ELSE Threw

IsArticle(a) ==
    /\ HasKeys(a, {"title", "source", "url"})
    /\ HasKeys(a.source, {"name"})
    /\ a.url \in ValidUrls
\* z.object({ articles: z.array(z.object({title, source: {name}, url: z.url()})).nonempty() })
NewsApiSchema(p) ==
    IF /\ HasKeys(p, {"articles"})
       /\ Len(p.articles) > 0
       /\ \A i \in DOMAIN p.articles : IsArticle(p.articles[i])
    THEN [ok |-> TRUE,
          data |-> [articles |->
                      [i \in DOMAIN p.articles |->
                          [title |-> p.articles[i].title,
                           source |-> [name |-> p.articles[i].source.name],
                           url |-> p.articles[i].url]]]]
    ELSE Threw

----------------------------------------------------------------------------
(* fetchAndStoreData(): the seeding routine run once at startup.  Each step *)
(* below runs from one await to the next; the result is the store and the  *)
(* position afterwards ("done" after a return or a caught exception).      *)

\* db.exec("DELETE FROM crypto; DELETE FROM weather; DELETE FROM news;")
seedClearKeepsOld(d) == [db |-> d, pc |-> "crypto"]
seedClearCryptoOnly(d) == [db |-> [d EXCEPT !.crypto = <<>>], pc |-> "crypto"]
seedClear(d) == [db |-> EmptyDb, pc |-> "crypto"]

CryptoRowSwapped(name, symbol, coin) ==
    [name |-> name, symbol |-> symbol, price |-> coin.usd_market_cap, market_cap |-> coin.usd]
CryptoRow(name, symbol, coin) ==
    [name |-> name, symbol |-> symbol, price |-> coin.usd, market_cap |-> coin.usd_market_cap]

\* From the crypto fetch to the weather fetch.
seedCrypto(d, o) ==
    IF o.kind = "reject" THEN [db |-> d, pc |-> "done"]
    ELSE LET parsed == CryptoApiSchema(o.body) IN
         IF ~parsed.ok THEN [db |-> d, pc |-> "done"]
         ELSE [db |-> [d EXCEPT !.crypto =
                          (@ \o <<CryptoRow("Bitcoin", "BTC", parsed.data.bitcoin)>>)
                             \o <<CryptoRow("Ethereum", "ETH", parsed.data.ethereum)>>],
               pc |-> "weather"]

\* From the weather fetch to the news fetch.
seedWeather(d, o) ==
    IF o.kind = "reject" THEN [db |-> d, pc |-> "done"]
    ELSE LET parsed == WeatherApiSchema(o.body) IN
         IF ~parsed.ok THEN [db |-> d, pc |-> "done"]
         ELSE LET weatherCondition == parsed.data.weather[1].main IN
              IF weatherCondition = "" THEN [db |-> d, pc |-> "done"]
              ELSE [db |-> [d EXCEPT !.weather = @ \o
                               <<[city |-> SeedCity,
                                  temperature |-> parsed.data.main.temp,
                                  condition |-> weatherCondition]>>],
                    pc |-> "news"]

NewsRows(articles) ==
    [i \in DOMAIN articles |->
        [title |-> articles[i].title, source |-> articles[i].source.name,
         url |-> articles[i].url]]

seedNewsTopArticle(d, o) ==
    IF o.kind = "reject" THEN [db |-> d, pc |-> "done"]
    ELSE LET parsed == NewsApiSchema(o.body) IN
         IF ~parsed.ok THEN [db |-> d, pc |-> "done"]
         ELSE IF Len(parsed.data.articles) = 0 THEN [db |-> d, pc |-> "done"]
         ELSE [db |-> [d EXCEPT !.news = @ \o NewsRows(SubSeq(parsed.data.articles, 1, 1))],
               pc |-> "done"]
\* From the news fetch to the end.
seedNews(d, o) ==
    IF o.kind = "reject" THEN [db |-> d, pc |-> "done"]
    ELSE LET parsed == NewsApiSchema(o.body) IN
         IF ~parsed.ok THEN [db |-> d, pc |-> "done"]
         ELSE IF Len(parsed.data.articles) = 0 THEN [db |-> d, pc |-> "done"]
         ELSE [db |-> [d EXCEPT !.news = @ \o NewsRows(parsed.data.articles)],
               pc |-> "done"]

----------------------------------------------------------------------------
(* GET /weather *)

\* const city = (req.query.city as string) || "New York"
RequestedCity(q) ==
    IF "city" \in DOMAIN q /\ q.city # "" THEN q.city ELSE DefaultCity

weatherResultSurfacesMessage(city, o) ==
    IF o.kind = "reject"
    THEN [status |-> 500,
          body |-> IF o.message # "" THEN [error |-> o.message] ELSE FailedToFetchWeather]
    ELSE LET parsed == WeatherApiSchema(o.body) IN
         IF ~parsed.ok THEN [status |-> 500, body |-> FailedToFetchWeather]
         ELSE LET condition == parsed.data.weather[1].main IN
              IF condition = "" THEN [status |-> 400, body |-> InvalidWeatherData]
              ELSE [status |-> 200,
                    body |-> [city |-> city, temperature |-> parsed.data.main.temp,
                              condition |-> condition]]
weatherResultLastCondition(city, o) ==
    IF o.kind = "reject" THEN [status |-> 500, body |-> FailedToFetchWeather]
    ELSE LET parsed == WeatherApiSchema(o.body) IN
         IF ~parsed.ok THEN [status |-> 500, body |-> FailedToFetchWeather]
         ELSE LET condition == parsed.data.weather[Len(parsed.data.weather)].main IN
              IF condition = "" THEN [status |-> 400, body |-> InvalidWeatherData]
              ELSE [status |-> 200,
                    body |-> [city |-> city, temperature |-> parsed.data.main.temp,
                              condition |-> condition]]
\* The handler from the resolution of the upstream fetch to the response.
weatherResult(city, o) ==
    IF o.kind = "reject" THEN [status |-> 500, body |-> FailedToFetchWeather]
    ELSE LET parsed == WeatherApiSchema(o.body) IN
         IF ~parsed.ok THEN [status |-> 500, body |-> FailedToFetchWeather]
         ELSE LET condition == parsed.data.weather[1].main IN
              IF condition = "" THEN [status |-> 400, body |-> InvalidWeatherData]
              ELSE [status |-> 200,
                    body |-> [city |-> city, temperature |-> parsed.data.main.temp,
                              condition |-> condition]]

----------------------------------------------------------------------------
(* The standalone seeding scripts (seed.ts, and its multi-city variant):    *)
(* one run of fetchAndStoreData() against the Postgres store, then exit.    *)

\* Bun.env values: "" when the variable is not set.
EnvValues == {"", "set"}
Envs == [DATABASE_URL : EnvValues, OPENWEATHER_API_KEY : EnvValues,
         NEWSAPI_API_KEY : EnvValues]

\* The cities the multi-city script seeds, in order (the first MaxCities of them).
AllCities == <<"Ho Chi Minh", "Hanoi", "Da Nang", "Hoi An", "Can Tho", "Nha Trang",
               "Hue", "Da Lat", "Buon Ma Thuot", "Vinh">>
cities == SubSeq(AllCities, 1, MaxCities)

\* Market objects of the coins/markets endpoint.
Coin1 == [id |-> "bitcoin", name |-> "Bitcoin", symbol |-> "btc",
          current_price |-> 50000, market_cap |-> 1000000, total_volume |-> 700,
          price_change_percentage_24h |-> 2, sparkline_in_7d |-> [price |-> <<1, 2>>]]
Coin2 == [id |-> "ethereum", name |-> "Ethereum", symbol |-> "eth",
          current_price |-> 3000, market_cap |-> 400000, total_volume |-> 300,
          price_change_percentage_24h |-> 1, sparkline_in_7d |-> [price |-> <<>>]]
BadCoin == [id |-> "x", name |-> "X", symbol |-> "x"]
\* Bodies of an OK answer of the markets endpoint (JSON arrays).
MarketPayloads == {<<Coin1, Coin2>>, <<Coin1>>, <<>>, <<Coin1, BadCoin>>}

\* Bodies of an OK answer of the weather endpoint, as the multi-city script reads them.
CityWeatherPayloads ==
    {[main |-> [temp |-> 30, humidity |-> 70], wind |-> [speed |-> 3],
      weather |-> <<[main |-> "Clear"]>>],
     [main |-> [temp |-> 30, humidity |-> 70], wind |-> [speed |-> 3],
      weather |-> <<[main |-> ""]>>],
     [main |-> [temp |-> 30, humidity |-> 70], wind |-> [speed |-> 3],
      weather |-> <<>>]}

\* What `await fetch(...)` gives the scripts: a rejection, a response that is
\* not OK (its body is not read), or an OK response with a JSON body.
Responses(payloads) ==
    {[kind |-> "reject", message |-> "Unable to connect"],
     [kind |-> "response", ok |-> FALSE, statusText |-> "Too Many Requests"]}
        \cup {[kind |-> "response", ok |-> TRUE, body |-> p] : p \in payloads}

\* Rows left in the Postgres store before the run.
StalePg ==
    [crypto |-> <<[name |-> "Stale", symbol |-> "OLD"]>>,
     weather |-> <<[city |-> "Stale"]>>,
     news |-> <<[title |-> "Stale", source |-> "Old", url |-> "https://old.example"]>>]

\* z.array(z.object({id, name, symbol, current_price, market_cap, total_volume,
\*                   price_change_percentage_24h, sparkline_in_7d: {price}}))
IsMarket(c) ==
    /\ HasKeys(c, {"id", "name", "symbol", "current_price", "market_cap",
                   "total_volume", "price_change_percentage_24h", "sparkline_in_7d"})
    /\ HasKeys(c.sparkline_in_7d, {"price"})
MarketsApiSchema(p) ==
    IF \A i \in DOMAIN p : IsMarket(p[i])
    THEN [ok |-> TRUE, data |-> p]
    ELSE Threw

\* The weather schema the multi-city script reads main.humidity and
\* wind.speed through.
WeatherApiSchemaMulti(p) ==
    IF /\ HasKeys(p, {"main", "weather", "wind"})
       /\ HasKeys(p.main, {"temp", "humidity"})
       /\ HasKeys(p.wind, {"speed"})
       /\ Len(p.weather) > 0
       /\ \A i \in DOMAIN p.weather : HasKeys(p.weather[i], {"main"})
    THEN [ok |-> TRUE,
          data |-> [main |-> [temp |-> p.main.temp, humidity |-> p.main.humidity],
                    wind |-> [speed |-> p.wind.speed],
                    weather |-> [i \in DOMAIN p.weather |-> [main |-> p.weather[i].main]]]]
    ELSE Threw

\* coin.symbol.toUpperCase()
toUpperCase(str) ==
    CASE str = "btc" -> "BTC"
      [] str = "eth" -> "ETH"
      [] str = "x" -> "X"
      [] OTHER -> str

\* JSON.stringify of an array of numbers.
RECURSIVE JoinNumbers(_)
JoinNumbers(a) ==
    IF Len(a) = 0 THEN ""
    ELSE IF Len(a) = 1 THEN ToString(a[1])
    ELSE ToString(a[1]) \o "," \o JoinNumbers(Tail(a))
JSONstringify(a) == "[" \o JoinNumbers(a) \o "]"

\* VALUES ($1 .. $7) of INSERT INTO crypto
MarketRow(coin) ==
    [name |-> coin.name, symbol |-> toUpperCase(coin.symbol),
     price |-> coin.current_price, market_cap |-> coin.market_cap,
     price_change_24h |-> coin.price_change_percentage_24h,
     volume_24h |-> coin.total_volume,
     sparkline_7d |-> JSONstringify(coin.sparkline_in_7d.price)]
\* VALUES of INSERT INTO weather, single-city script
SingleWeatherRow(data) ==
    [city |-> SeedCity, temperature |-> data.main.temp,
     condition |-> data.weather[1].main]
\* VALUES of INSERT INTO weather, multi-city script
CityWeatherRow(city, data) ==
    [city |-> city, temperature |-> data.main.temp, condition |-> data.weather[1].main,
     humidity |-> data.main.humidity, wind_speed |-> data.wind.speed]
\* VALUES of INSERT INTO news
NewsRow(article) ==
    [title |-> article.title, source |-> article.source.name, url |-> article.url]

\* The state of a run that has not started: run n of the script.
NewRun(n) ==
    [pc |-> "start", i |-> 1, held |-> FALSE, released |-> 0, ended |-> 0,
     rejected |-> FALSE, log |-> {}, ops |-> <<>>,
     got |-> [crypto |-> <<>>, weather |-> <<>>, news |-> <<>>], run |-> n]

\* The guards at the top of fetchAndStoreData(): the message logged, "" if none.
ConfigErrorKeysOnly(e) ==
    IF e.OPENWEATHER_API_KEY = "" \/ e.NEWSAPI_API_KEY = ""
    THEN "API keys are missing. Please set OPENWEATHER_API_KEY and NEWSAPI_API_KEY."
    ELSE ""
ConfigError(e) ==
    IF e.DATABASE_URL = "" THEN "DATABASE_URL is not set. Cannot seed data."
    ELSE IF e.OPENWEATHER_API_KEY = "" \/ e.NEWSAPI_API_KEY = ""
    THEN "API keys are missing. Please set OPENWEATHER_API_KEY and NEWSAPI_API_KEY."
    ELSE ""

Logged(s, msg) == [s EXCEPT !.log = @ \cup {msg}]
\* A store operation of the run, noted once per table and kind.
Did(s, op, table) ==
    LET x == [op |-> op, table |-> table] IN
    IF Len(s.ops) > 0 /\ s.ops[Len(s.ops)] = x THEN s
    ELSE [s EXCEPT !.ops = Append(@, x)]

\* catch (error) { console.error("Error during data seeding:", error) }
CaughtRollsBack(s, d) ==
    [sd |-> [Logged(s, "Error during data seeding:") EXCEPT !.pc = "finally"],
     pg |-> [crypto |-> <<>>, weather |-> <<>>, news |-> <<>>]]
Caught(s, d) ==
    [sd |-> [Logged(s, "Error during data seeding:") EXCEPT !.pc = "finally"],
     pg |-> d]

\* From the call to the first await: the guards, then pool.connect().
scriptStart(s, e) ==
    IF ConfigError(e) # "" THEN [Logged(s, ConfigError(e)) EXCEPT !.pc = "exit"]
    ELSE [s EXCEPT !.pc = "connect"]

\* pool.connect() settles; it is awaited outside the try block.
scriptConnect(s, ok) ==
    IF ok THEN [Logged(s, "Starting data seeding...") EXCEPT
                   !.held = TRUE, !.pc = "delete", !.i = 1]
    ELSE [s EXCEPT !.rejected = TRUE, !.pc = "exit"]

\* The three DELETE statements, in this order.
ClearOrderSkipsNews == <<"crypto", "weather">>
ClearOrder == <<"crypto", "weather", "news">>
scriptDelete(s, d, ok) ==
    IF ~ok THEN Caught(s, d)
    ELSE LET t == ClearOrder[s.i]
             s1 == Did(s, "DELETE", t)
         IN  [sd |-> IF s.i < Len(ClearOrder) THEN [s1 EXCEPT !.i = @ + 1]
                     ELSE [Logged(s1, "Old data cleared.") EXCEPT
                              !.pc = "fetch_crypto", !.i = 1],
              pg |-> [d EXCEPT ![t] = <<>>]]

\* The markets fetch settles: the OK test and the parse, up to the first INSERT.
scriptFetchCryptoContinues(s, d, o) ==
    LET s0 == [s EXCEPT !.got.crypto = o] IN
    IF o.kind = "reject" THEN Caught(s0, d)
    ELSE IF ~o.ok THEN Caught(s0, d)
    ELSE LET parsed == MarketsApiSchema(o.body) IN
         IF ~parsed.ok \/ Len(parsed.data) = 0
         THEN [sd |-> [Logged(s0, "Crypto data stored.") EXCEPT
                          !.pc = "fetch_weather", !.i = 1],
               pg |-> d]
         ELSE [sd |-> [s0 EXCEPT !.pc = "ins_crypto", !.i = 1], pg |-> d]
scriptFetchCrypto(s, d, o) ==
    LET s0 == [s EXCEPT !.got.crypto = o] IN
    IF o.kind = "reject" THEN Caught(s0, d)
    ELSE IF ~o.ok THEN Caught(s0, d)
    ELSE LET parsed == MarketsApiSchema(o.body) IN
         IF ~parsed.ok THEN Caught(s0, d)
         ELSE IF Len(parsed.data) = 0
         THEN [sd |-> [Logged(s0, "Crypto data stored.") EXCEPT
                          !.pc = "fetch_weather", !.i = 1],
               pg |-> d]
         ELSE [sd |-> [s0 EXCEPT !.pc = "ins_crypto", !.i = 1], pg |-> d]

\* One INSERT INTO crypto of the loop over cryptoData settles.
scriptInsertCrypto(s, d, ok) ==
    IF ~ok THEN Caught(s, d)
    ELSE LET cryptoData == MarketsApiSchema(s.got.crypto.body).data
             s1 == Did(s, "INSERT", "crypto")
         IN  [sd |-> IF s.i < Len(cryptoData) THEN [s1 EXCEPT !.i = @ + 1]
                     ELSE [Logged(s1, "Crypto data stored.") EXCEPT
                              !.pc = "fetch_weather", !.i = 1],
              pg |-> [d EXCEPT !.crypto = Append(@, MarketRow(cryptoData[s.i]))]]

\* part_002: on to the next city of the loop, or out of it to the news fetch.
AfterCity(s) ==
    IF s.i < Len(cities) THEN [s EXCEPT !.pc = "fetch_weather", !.i = @ + 1]
    ELSE [Logged(s, "Weather data stored.") EXCEPT !.pc = "fetch_news", !.i = 1]

\* seed.ts: the weather fetch settles, up to the INSERT or the news fetch.
scriptFetchWeatherSingle(s, d, o) ==
    LET s0 == [s EXCEPT !.got.weather = Append(@, o)] IN
    IF o.kind = "reject" THEN Caught(s0, d)
    ELSE IF ~o.ok THEN Caught(s0, d)
    ELSE LET parsed == WeatherApiSchema(o.body) IN
         IF ~parsed.ok THEN Caught(s0, d)
         ELSE IF parsed.data.weather[1].main = ""
         THEN [sd |-> [Logged(s0, "No weather condition found from API.") EXCEPT
                          !.pc = "fetch_news", !.i = 1],
               pg |-> d]
         ELSE [sd |-> [s0 EXCEPT !.pc = "ins_weather"], pg |-> d]

\* part_002: the weather fetch of city cities[s.i] settles.
scriptFetchWeatherCityThrows(s, d, o) ==
    LET s0 == [s EXCEPT !.got.weather = Append(@, o)] IN
    IF o.kind = "reject" THEN Caught(s0, d)
    ELSE IF ~o.ok THEN Caught(s0, d)
    ELSE LET parsed == WeatherApiSchemaMulti(o.body) IN
         IF ~parsed.ok THEN Caught(s0, d)
         ELSE IF parsed.data.weather[1].main = ""
         THEN [sd |-> AfterCity(s0), pg |-> d]
         ELSE [sd |-> [s0 EXCEPT !.pc = "ins_weather"], pg |-> d]
scriptFetchWeatherCity(s, d, o) ==
    LET s0 == [s EXCEPT !.got.weather = Append(@, o)] IN
    IF o.kind = "reject" THEN Caught(s0, d)
    ELSE IF ~o.ok
    THEN [sd |-> AfterCity(Logged(s0, "Failed to fetch weather for " \o cities[s.i])),
          pg |-> d]
    ELSE LET parsed == WeatherApiSchemaMulti(o.body) IN
         IF ~parsed.ok THEN Caught(s0, d)
         ELSE IF parsed.data.weather[1].main = ""
         THEN [sd |-> AfterCity(s0), pg |-> d]
         ELSE [sd |-> [s0 EXCEPT !.pc = "ins_weather"], pg |-> d]

\* seed.ts: the INSERT INTO weather settles.
scriptInsertWeatherSingle(s, d, ok) ==
    IF ~ok THEN Caught(s, d)
    ELSE LET weatherData == WeatherApiSchema(s.got.weather[Len(s.got.weather)].body).data
         IN  [sd |-> [Logged(Did(s, "INSERT", "weather"), "Weather data stored.") EXCEPT
                          !.pc = "fetch_news", !.i = 1],
              pg |-> [d EXCEPT !.weather = Append(@, SingleWeatherRow(weatherData))]]

\* part_002: the INSERT INTO weather of city cities[s.i] settles.
scriptInsertWeatherCity(s, d, ok) ==
    IF ~ok THEN Caught(s, d)
    ELSE LET weatherData ==
                 WeatherApiSchemaMulti(s.got.weather[Len(s.got.weather)].body).data
         IN  [sd |-> AfterCity(Did(s, "INSERT", "weather")),
              pg |-> [d EXCEPT !.weather = Append(@, CityWeatherRow(cities[s.i], weatherData))]]

\* The news fetch settles: the OK test and the parse, up to the first INSERT.
scriptFetchNews(s, d, o) ==
    LET s0 == [s EXCEPT !.got.news = o] IN
    IF o.kind = "reject" THEN Caught(s0, d)
    ELSE IF ~o.ok THEN Caught(s0, d)
    ELSE LET parsed == NewsApiSchema(o.body) IN
         IF ~parsed.ok THEN Caught(s0, d)
         ELSE IF Len(parsed.data.articles) = 0
         THEN [sd |-> [Logged(Logged(s0, "No news articles found from API."),
                              "Data seeding complete!") EXCEPT !.pc = "finally"],
               pg |-> d]
         ELSE [sd |-> [s0 EXCEPT !.pc = "ins_news", !.i = 1], pg |-> d]

\* One INSERT INTO news of the loop over the articles settles.
scriptInsertNews(s, d, ok) ==
    IF ~ok THEN Caught(s, d)
    ELSE LET articles == NewsApiSchema(s.got.news.body).data.articles
             s1 == Did(s, "INSERT", "news")
         IN  [sd |-> IF s.i < Len(articles) THEN [s1 EXCEPT !.i = @ + 1]
                     ELSE [Logged(Logged(s1, "News data stored."),
                                  "Data seeding complete!") EXCEPT !.pc = "finally"],
              pg |-> [d EXCEPT !.news = Append(@, NewsRow(articles[s.i]))]]

\* finally { client.release(); await pool.end() }: then the routine returns.
scriptFinallyKeepsPool(s) ==
    [s EXCEPT !.held = FALSE, !.released = @ + 1, !.pc = "exit"]
scriptFinally(s) ==
    [s EXCEPT !.held = FALSE, !.released = @ + 1, !.ended = @ + 1, !.pc = "exit"]

----------------------------------------------------------------------------
(* Observation of the requests: what the checks below read *)

NoEntry == <<>>
NoCheck == [ep |-> "", key |-> "", denied |-> FALSE, next |-> FALSE,
            before |-> NoEntry, nth |-> 0, wasDenied |-> FALSE]
NoResponse == [ep |-> "", status |-> 0, body |-> <<>>, reads |-> 0, upstream |-> FALSE]
NoAgg == [n |-> 0, status |-> 0, body |-> <<>>, denied |-> FALSE]
NoSeedIn == [crypto |-> NoEntry, weather |-> NoEntry, news |-> NoEntry]

Min(a, b) == IF a < b THEN a ELSE b

\* The window a request at t falls in: the window of the key's first request
\* lasts until WINDOW_MS after it, the next request after that opens a new one.
WinAfter(w, key, t) ==
    IF key \in DOMAIN w /\ t <= w[key].start + WINDOW_MS
    THEN MapSet(w, key, [w[key] EXCEPT !.n = Min(@ + 1, RATE_LIMIT + 2)])
    ELSE MapSet(w, key, [start |-> t, n |-> 1])

\* The Allowed requests of each key that are less than WINDOW_MS before t
\* (the latest RATE_LIMIT + 1 of them).
AllowedAfter(a, key, t, allowed) ==
    [k \in DOMAIN a \cup {key} |->
        LET old == IF k \in DOMAIN a THEN a[k] ELSE <<>>
            kept == SelectSeq(old, LAMBDA x : t - x < WINDOW_MS)
            all == IF k = key /\ allowed THEN Append(kept, t) ELSE kept
        IN  IF Len(all) > RATE_LIMIT + 1 THEN Tail(all) ELSE all]

\* Bookkeeping of one rate-limit check of `key` at time t with result rl.
Checked(ep, key, t, rl) ==
    /\ now' = t
    /\ rateLimitStore' = rl.store
    /\ win' = WinAfter(win, key, t)
    /\ allowedAt' = AllowedAfter(allowedAt, key, t, ~rl.denied)
    /\ chk' = [ep |-> ep, key |-> key, denied |-> rl.denied, next |-> rl.next,
               before |-> IF key \in DOMAIN rateLimitStore
                          THEN rateLimitStore[key] ELSE NoEntry,
               nth |-> WinAfter(win, key, t)[key].n,
               wasDenied |-> /\ key \in DOMAIN win
                             /\ t > win[key].start + WINDOW_MS
                             /\ win[key].n > RATE_LIMIT + 1]

----------------------------------------------------------------------------
(* The dashboard: the search box of NewsSection *)

DebounceMs == 369

\* What the search box can hold.
Keywords == {"", "a", "ab"}
\* Milliseconds that can pass between two events of the page.
TimeSteps == {1, DebounceMs - 1, DebounceMs}

\* setTimeout(() => setDebouncedKeyword(keyword), 369): one more pending
\* timer, carrying the keyword of the render that set it.
setTimeout(timers, keyword) == Append(timers, [value |-> keyword, left |-> DebounceMs])

\* return () => clearTimeout(timer): the timer of the latest effect, if it
\* has not fired yet (armed), is the last one set.
clearTimeoutNoop(timers, armed) == timers
clearTimeout(timers, armed) ==
    IF armed THEN SubSeq(timers, 1, Len(timers) - 1) ELSE timers

\* After the first render: keyword "", debouncedKeyword "", the effect has run.
\* idle: milliseconds since the latest keystroke (since mounting, before the
\* first), up to DebounceMs.
NewsMounted ==
    [keyword |-> "", debouncedKeyword |-> "", timers |-> setTimeout(<<>>, ""),
     armed |-> TRUE, idle |-> 0]

\* onChange={(e) => setKeyword(e.target.value)}, the render it causes, and
\* the effect on [keyword]: clean up, then set a new timer.
onChange(n, value) ==
    [n EXCEPT !.keyword = value,
              !.timers = setTimeout(clearTimeout(n.timers, n.armed), value),
              !.armed = TRUE,
              !.idle = 0]

\* d milliseconds pass.
elapse(n, d) ==
    [n EXCEPT !.timers = [i \in DOMAIN n.timers |->
                             [n.timers[i] EXCEPT !.left = IF @ > d THEN @ - d ELSE 0]],
              !.idle = Min(@ + d, DebounceMs)]

\* The callback of pending timer i runs: setDebouncedKeyword(keyword).
timerFires(n, i) ==
    [n EXCEPT !.debouncedKeyword = n.timers[i].value,
              !.timers = SubSeq(n.timers, 1, i - 1) \o SubSeq(n.timers, i + 1, Len(n.timers)),
              !.armed = IF i = Len(n.timers) THEN FALSE ELSE @]

----------------------------------------------------------------------------
(* The dashboard: App, its data and updateWeather *)

\* What the city box of WeatherSection can hold when the form is submitted.
UiCities == {"", "Hanoi", "hanoi", "New York"}

\* String.prototype.toLowerCase on the city names of the model.
toLowerCase(str) ==
    CASE str = "Hanoi" -> "hanoi"
      [] str = "New York" -> "new york"
      [] str = "Ho Chi Minh" -> "ho chi minh"
      [] OTHER -> str

\* The weather array of a loaded AggregatedData.
LoadedWeather ==
    <<[city |-> "Hanoi", temperature |-> 28, condition |-> "Clouds"],
      [city |-> "New York", temperature |-> 12, condition |-> "Rain"]>>

\* A response body that is not JSON (an error page of the /api proxy).
NotJson == [raw |-> "<html>"]

\* What `await fetch("/api/aggregated-data")` can do.
DataResponses ==
    {[kind |-> "reject", message |-> "Failed to fetch"],
     [kind |-> "http", status |-> 500, body |-> DataNotAvailable],
     [kind |-> "http", status |-> 429, body |-> TooManyRequests],
     [kind |-> "http", status |-> 200, body |-> [weather |-> LoadedWeather]]}

\* What `await fetch(`/api/weather?city=${city}`)` can do: the request fails,
\* the proxy answers, the rate limiter answers 429, or the /weather handler
\* answers for the city it reads from the query.
WeatherResponses(city) ==
    {[kind |-> "reject", message |-> "Failed to fetch"],
     [kind |-> "http", status |-> 502, body |-> NotJson],
     [kind |-> "http", status |-> 429, body |-> TooManyRequests]}
        \cup {[kind |-> "http",
               status |-> weatherResult(RequestedCity([city |-> city]), o).status,
               body |-> weatherResult(RequestedCity([city |-> city]), o).body] :
                  o \in FetchOutcomes(WeatherPayloads)}

\* res.ok
ResOk(r) == r.kind = "http" /\ r.status >= 200 /\ r.status <= 299

\* The message of the Error the try block of fetchData/updateWeather throws.
Thrown(r, fallback) ==
    IF r.kind = "reject" THEN r.message
    ELSE IF "raw" \in DOMAIN r.body THEN "Unexpected token < in JSON"
    ELSE IF "error" \in DOMAIN r.body /\ r.body.error # "" THEN r.body.error
    ELSE fallback

\* After the first render: nothing loaded, no update in flight (updating:
\* the city of the updateWeather call in flight, resp: the latest response
\* an updateWeather call got).
AppMounted ==
    [data |-> NoEntry, loading |-> TRUE, error |-> <<>>, updating |-> <<>>,
     resp |-> NoEntry]

\* fetchData() of the mount effect, from its response on.
fetchData(a, r) ==
    IF ResOk(r) THEN [a EXCEPT !.data = r.body, !.loading = FALSE]
    ELSE [a EXCEPT !.error = <<Thrown(r, "")>>, !.loading = FALSE]

\* prev.weather.filter(...) followed by [...updatedWeathers, newWeather]
ReplaceCity(weather, city, newWeather) ==
    Append(SelectSeq(weather, LAMBDA w : toLowerCase(w.city) # toLowerCase(city)),
           newWeather)

\* updateWeather(city), from its response on.
updateWeather(a, city, r) ==
    IF ~ResOk(r)
    THEN [a EXCEPT !.error = <<Thrown(r, "Failed to fetch weather")>>,
                   !.updating = <<>>, !.resp = r]
    ELSE [a EXCEPT !.data = IF DOMAIN @ = {} THEN NoEntry
                            ELSE [@ EXCEPT !.weather = ReplaceCity(@, city, r.body)],
                   !.updating = <<>>, !.resp = r]

----------------------------------------------------------------------------
(* Actions *)

GatewayInit ==
    /\ now = 0
    /\ rateLimitStore = <<>>
    /\ db \in {EmptyDb, StaleDb}
    /\ seedPc = "start"
    /\ listening = FALSE
    /\ pending = {}
    /\ chk = NoCheck
    /\ ev = NoResponse
    /\ allowedAt = <<>>
    /\ win = <<>>
    /\ aggLast = NoAgg
    /\ seedIn = NoSeedIn
    /\ news = NewsMounted
    /\ app = AppMounted

\* The gateway process: no standalone script runs.
Init ==
    /\ GatewayInit
    /\ variant = "index.ts"
    /\ env = [DATABASE_URL |-> "", OPENWEATHER_API_KEY |-> "set", NEWSAPI_API_KEY |-> "set"]
    /\ pg = EmptyDb
    /\ sd = NewRun(1)

\* fetchAndStoreData() is called at module load and runs to its first await.
SeedStart ==
    /\ seedPc = "start"
    /\ db' = seedClear(db).db
    /\ seedPc' = seedClear(db).pc
    /\ seedIn' = NoSeedIn
    /\ aggLast' = NoAgg
    /\ UNCHANGED <<now, rateLimitStore, listening, pending, chk, ev, allowedAt, win>>
    /\ UNCHANGED <<scriptVars, dashboardVars>>

\* app.listen(port): the rest of the module runs after the call above returned.
Listen ==
    /\ seedPc # "start"
    /\ ~listening
    /\ listening' = TRUE
    /\ UNCHANGED <<now, rateLimitStore, db, seedPc, pending, chk, ev,
                   allowedAt, win, aggLast, seedIn>>
    /\ UNCHANGED <<scriptVars, dashboardVars>>

\* The crypto fetch settles: parse and insert, up to the weather fetch.
SeedCrypto ==
    /\ seedPc = "crypto"
    /\ \E o \in FetchOutcomes(CryptoPayloads) :
          /\ db' = seedCrypto(db, o).db
          /\ seedPc' = seedCrypto(db, o).pc
          /\ seedIn' = [seedIn EXCEPT !.crypto = o]
    /\ aggLast' = NoAgg
    /\ UNCHANGED <<now, rateLimitStore, listening, pending, chk, ev, allowedAt, win>>
    /\ UNCHANGED <<scriptVars, dashboardVars>>

\* The weather fetch settles: parse and insert, up to the news fetch.
SeedWeather ==
    /\ seedPc = "weather"
    /\ \E o \in FetchOutcomes(WeatherPayloads) :
          /\ db' = seedWeather(db, o).db
          /\ seedPc' = seedWeather(db, o).pc
          /\ seedIn' = [seedIn EXCEPT !.weather = o]
    /\ aggLast' = NoAgg
    /\ UNCHANGED <<now, rateLimitStore, listening, pending, chk, ev, allowedAt, win>>
    /\ UNCHANGED <<scriptVars, dashboardVars>>

\* The news fetch settles: parse and insert; the seeding is over.
SeedNews ==
    /\ seedPc = "news"
    /\ \E o \in FetchOutcomes(NewsPayloads) :
          /\ db' = seedNews(db, o).db
          /\ seedPc' = seedNews(db, o).pc
          /\ seedIn' = [seedIn EXCEPT !.news = o]
    /\ aggLast' = NoAgg
    /\ UNCHANGED <<now, rateLimitStore, listening, pending, chk, ev, allowedAt, win>>
    /\ UNCHANGED <<scriptVars, dashboardVars>>

\* GET /aggregated-data from client c, d ms after the previous rate-limited request.
AggregatedDataRequest(c, d) ==
    /\ listening
    /\ now + d <= MaxTime
    /\ LET key == ClientKey(c)
           rl == rateLimiter(rateLimitStore, key, now + d)
           r == IF rl.denied THEN [status |-> 429, body |-> TooManyRequests]
                ELSE aggregatedData(db)
       IN  /\ Checked("/aggregated-data", key, now + d, rl)
           /\ db' = IF rl.next THEN AggregatedDataStore(db) ELSE db
           /\ ev' = [ep |-> "/aggregated-data", status |-> r.status, body |-> r.body,
                     reads |-> IF rl.next THEN 3 ELSE 0, upstream |-> FALSE]
           /\ aggLast' = [n |-> Min(aggLast.n + 1, 2), status |-> r.status,
                          body |-> r.body, denied |-> rl.denied]
    /\ UNCHANGED <<seedPc, listening, pending, seedIn>>
    /\ UNCHANGED <<scriptVars, dashboardVars>>

\* GET /weather from client c with query q: the rate limiter, then the handler
\* up to its await of the upstream fetch.
WeatherRequestOwnCounter(c, d, q) ==
    /\ listening
    /\ now + d <= MaxTime
    /\ Cardinality(pending) < MaxPending
    /\ LET key == "/weather " \o ClientKey(c)
           rl == rateLimiter(rateLimitStore, key, now + d)
       IN  /\ Checked("/weather", key, now + d, rl)
           /\ pending' = IF rl.next
                         THEN pending \cup {[query |-> q, city |-> RequestedCity(q)]}
                         ELSE pending
           /\ ev' = IF rl.denied
                    THEN [ep |-> "/weather", status |-> 429, body |-> TooManyRequests,
                          reads |-> 0, upstream |-> rl.next]
                    ELSE ev
    /\ aggLast' = NoAgg
    /\ UNCHANGED <<db, seedPc, listening, seedIn>>
    /\ UNCHANGED <<scriptVars, dashboardVars>>
WeatherRequest(c, d, q) ==
    /\ listening
    /\ now + d <= MaxTime
    /\ Cardinality(pending) < MaxPending
    /\ LET key == ClientKey(c)
           rl == rateLimiter(rateLimitStore, key, now + d)
       IN  /\ Checked("/weather", key, now + d, rl)
           /\ pending' = IF rl.next
                         THEN pending \cup {[query |-> q, city |-> RequestedCity(q)]}
                         ELSE pending
           /\ ev' = IF rl.denied
                    THEN [ep |-> "/weather", status |-> 429, body |-> TooManyRequests,
                          reads |-> 0, upstream |-> rl.next]
                    ELSE ev
    /\ aggLast' = NoAgg
    /\ UNCHANGED <<db, seedPc, listening, seedIn>>
    /\ UNCHANGED <<scriptVars, dashboardVars>>

\* The upstream fetch of a suspended /weather handler settles with outcome o.
WeatherDone(p, o) ==
    /\ p \in pending
    /\ pending' = pending \ {p}
    /\ LET r == weatherResult(p.city, o)
       IN  ev' = [ep |-> "/weather", status |-> r.status, body |-> r.body,
                  reads |-> 0, upstream |-> TRUE]
    /\ aggLast' = NoAgg
    /\ UNCHANGED <<now, rateLimitStore, db, seedPc, listening, chk, allowedAt, win, seedIn>>
    /\ UNCHANGED <<scriptVars, dashboardVars>>

\* GET /: res.redirect(301, "/aggregated-data"), not rate limited.
RootRequest ==
    /\ listening
    /\ ev' = [ep |-> "/", status |-> 301, body |-> [location |-> "/aggregated-data"],
              reads |-> 0, upstream |-> FALSE]
    /\ UNCHANGED <<now, rateLimitStore, db, seedPc, listening, pending, chk, allowedAt,
                   win, aggLast, seedIn>>
    /\ UNCHANGED <<scriptVars, dashboardVars>>

Scripts == {"seed.ts", "part_002"}

\* A standalone script: fetchAndStoreData() is called and runs to its first await.
ScriptStart ==
    /\ variant \in Scripts
    /\ sd.pc = "start"
    /\ sd' = scriptStart(sd, env)
    /\ UNCHANGED <<variant, env, pg>>
    /\ UNCHANGED <<gatewayVars, dashboardVars>>

ScriptConnect ==
    /\ variant \in Scripts
    /\ sd.pc = "connect"
    /\ \E ok \in BOOLEAN : sd' = scriptConnect(sd, ok)
    /\ UNCHANGED <<variant, env, pg>>
    /\ UNCHANGED <<gatewayVars, dashboardVars>>

\* A step of the script that settles a store query or a fetch: r is the
\* run and the store afterwards.
ScriptStepTo(r) ==
    /\ sd' = r.sd
    /\ pg' = r.pg
    /\ UNCHANGED <<variant, env>>
    /\ UNCHANGED <<gatewayVars, dashboardVars>>

ScriptDelete ==
    /\ variant \in Scripts
    /\ sd.pc = "delete"
    /\ \E ok \in BOOLEAN : ScriptStepTo(scriptDelete(sd, pg, ok))

ScriptFetchCrypto ==
    /\ variant \in Scripts
    /\ sd.pc = "fetch_crypto"
    /\ \E o \in Responses(MarketPayloads) : ScriptStepTo(scriptFetchCrypto(sd, pg, o))

ScriptInsertCrypto ==
    /\ variant \in Scripts
    /\ sd.pc = "ins_crypto"
    /\ \E ok \in BOOLEAN : ScriptStepTo(scriptInsertCrypto(sd, pg, ok))

ScriptFetchWeatherSingle ==
    /\ variant = "seed.ts"
    /\ sd.pc = "fetch_weather"
    /\ \E o \in Responses(WeatherPayloads) :
          ScriptStepTo(scriptFetchWeatherSingle(sd, pg, o))

ScriptInsertWeatherSingle ==
    /\ variant = "seed.ts"
    /\ sd.pc = "ins_weather"
    /\ \E ok \in BOOLEAN : ScriptStepTo(scriptInsertWeatherSingle(sd, pg, ok))

ScriptFetchWeatherCity ==
    /\ variant = "part_002"
    /\ sd.pc = "fetch_weather"
    /\ \E o \in Responses(CityWeatherPayloads) :
          ScriptStepTo(scriptFetchWeatherCity(sd, pg, o))

ScriptInsertWeatherCity ==
    /\ variant = "part_002"
    /\ sd.pc = "ins_weather"
    /\ \E ok \in BOOLEAN : ScriptStepTo(scriptInsertWeatherCity(sd, pg, ok))

ScriptFetchNews ==
    /\ variant \in Scripts
    /\ sd.pc = "fetch_news"
    /\ \E o \in Responses(NewsPayloads) : ScriptStepTo(scriptFetchNews(sd, pg, o))

ScriptInsertNews ==
    /\ variant \in Scripts
    /\ sd.pc = "ins_news"
    /\ \E ok \in BOOLEAN : ScriptStepTo(scriptInsertNews(sd, pg, ok))

ScriptFinally ==
    /\ variant \in Scripts
    /\ sd.pc = "finally"
    /\ sd' = scriptFinally(sd)
    /\ UNCHANGED <<variant, env, pg>>
    /\ UNCHANGED <<gatewayVars, dashboardVars>>

\* The script is run again, as a new process, against the same store.
ScriptRerun ==
    /\ variant \in Scripts
    /\ sd.pc = "exit"
    /\ sd.run < MaxRuns
    /\ sd' = NewRun(sd.run + 1)
    /\ env' \in Envs
    /\ UNCHANGED <<variant, pg>>
    /\ UNCHANGED <<gatewayVars, dashboardVars>>

\* The gateway with one client address: every handler, every query, every
\* upstream outcome, the seeding routine running beside the requests.
Next ==
    \/ SeedStart
    \/ Listen
    \/ SeedCrypto
    \/ SeedWeather
    \/ SeedNews
    \/ \E d \in HandlerDeltas : AggregatedDataRequest(Client1, d)
    \/ \E d \in HandlerDeltas, q \in Queries : WeatherRequest(Client1, d, q)
    \/ \E p \in pending, o \in FetchOutcomes(WeatherPayloads) : WeatherDone(p, o)
    \/ RootRequest

Spec == Init /\ [][Next]_vars

\* The rate limiter with two client addresses: the behaviours in which the
\* upstreams never answer the seeding routine and reject every /weather fetch.
NextLimiter ==
    \/ SeedStart
    \/ Listen
    \/ \E c \in Clients, d \in Deltas : AggregatedDataRequest(c, d)
    \/ \E c \in Clients, d \in Deltas : WeatherRequest(c, d, <<>>)
    \/ \E p \in pending, o \in FetchOutcomes({}) : WeatherDone(p, o)
    \/ RootRequest

SpecLimiter == Init /\ [][NextLimiter]_vars

\* The gateway started on the app.db a previous run of the process has filled.
InitRestart == Init /\ db = StaleDb
SpecRestart == InitRestart /\ [][Next]_vars

\* The seeding routines on their own: the one of index.ts at the startup of
\* the gateway, or a standalone script run against the Postgres store.
InitSeeding ==
    \/ Init
    \/ /\ GatewayInit
       /\ variant \in Scripts
       /\ env \in Envs
       /\ pg \in {EmptyDb, StalePg}
       /\ sd = NewRun(1)

InProcess == variant = "index.ts"

NextSeeding ==
    \/ InProcess /\ SeedStart
    \/ InProcess /\ SeedCrypto
    \/ InProcess /\ SeedWeather
    \/ InProcess /\ SeedNews
    \/ ScriptStart
    \/ ScriptConnect
    \/ ScriptDelete
    \/ ScriptFetchCrypto
    \/ ScriptInsertCrypto
    \/ ScriptFetchWeatherSingle
    \/ ScriptInsertWeatherSingle
    \/ ScriptFetchWeatherCity
    \/ ScriptInsertWeatherCity
    \/ ScriptFetchNews
    \/ ScriptInsertNews
    \/ ScriptFinally
    \/ ScriptRerun

SpecSeeding == InitSeeding /\ [][NextSeeding]_vars

----------------------------------------------------------------------------
(* The dashboard's steps *)

MaxEntries == 4    \* no update is started on a weather list this long

\* A keystroke in the search box that changes its content.
NewsKeystroke ==
    /\ \E value \in Keywords \ {news.keyword} : news' = onChange(news, value)
    /\ UNCHANGED <<gatewayVars, scriptVars, app>>

\* Time passes.
NewsElapse ==
    /\ \E d \in TimeSteps : news' = elapse(news, d)
    /\ UNCHANGED <<gatewayVars, scriptVars, app>>

\* A timer that is due runs its callback.
NewsTimerFires ==
    /\ \E i \in DOMAIN news.timers :
          /\ news.timers[i].left = 0
          /\ news' = timerFires(news, i)
    /\ UNCHANGED <<gatewayVars, scriptVars, app>>

NextNews == NewsKeystroke \/ NewsElapse \/ NewsTimerFires
SpecNews == Init /\ [][NextNews]_vars
\* Time goes on and a timer that is due is run.
SpecNewsFair == SpecNews /\ WF_vars(NewsElapse) /\ WF_vars(NewsTimerFires)

\* The fetch of the mount effect settles.
FetchDataDone ==
    /\ app.loading
    /\ \E r \in DataResponses : app' = fetchData(app, r)
    /\ UNCHANGED <<gatewayVars, scriptVars, news>>

\* The form of WeatherSection is submitted: it is rendered (loaded, no
\* error) and its button is enabled (no call in flight).
UpdateWeatherStart ==
    /\ ~app.loading /\ app.error = <<>> /\ DOMAIN app.data # {}
    /\ app.updating = <<>>
    /\ Len(app.data.weather) < MaxEntries
    /\ \E city \in UiCities : app' = [app EXCEPT !.updating = <<city>>]
    /\ UNCHANGED <<gatewayVars, scriptVars, news>>

\* The fetch of updateWeather settles.
UpdateWeatherDone ==
    /\ app.updating # <<>>
    /\ \E r \in WeatherResponses(app.updating[1]) :
          app' = updateWeather(app, app.updating[1], r)
    /\ UNCHANGED <<gatewayVars, scriptVars, news>>

NextDashboard == FetchDataDone \/ UpdateWeatherStart \/ UpdateWeatherDone
SpecDashboard == Init /\ [][NextDashboard]_vars

----------------------------------------------------------------------------
(* Steps the properties speak about *)

\* A rate-limited request is received (either endpoint).
CheckStep ==
    \E c \in Clients, d \in Deltas :
        \/ AggregatedDataRequest(c, d)
        \/ \E q \in Queries : WeatherRequest(c, d, q)

\* A GET /aggregated-data is received.
AggStep == \E c \in Clients, d \in Deltas : AggregatedDataRequest(c, d)

Tables == {"crypto", "weather", "news"}
AnyTableEmpty(d) == \E t \in Tables : Len(d[t]) = 0
IsErrorBody(b) == DOMAIN b = {"error"}

----------------------------------------------------------------------------
(* Rate limiter properties *)

\* C1: for each client key, at most Q = RATE_LIMIT of its requests are Allowed
\* in any time interval of length W = WINDOW_MS (allowedAt[k] holds the Allowed
\* requests of k that lie less than W before its latest one).
C1_RollingWindowQuota ==
    \A k \in DOMAIN allowedAt : Len(allowedAt[k]) <= RATE_LIMIT

\* C2: of the requests one key sends inside a single window, the first
\* RATE_LIMIT are passed to the handler and the next one, the (Q+1)th, is
\* answered 429 with the fixed body.
C2_SixthRequestDenied ==
    [][CheckStep =>
          /\ (chk'.nth <= RATE_LIMIT => chk'.next /\ ~chk'.denied)
          /\ (chk'.nth = RATE_LIMIT + 1 =>
                 /\ chk'.denied /\ ~chk'.next
                 /\ ev'.status = 429 /\ ev'.body = TooManyRequests)]_vars

\* C3: a request of a key whose entry has now > resetTime is handled like the
\* first request of a new key (Allowed, entry replaced by {count: 1,
\* resetTime: now + W}) whatever the old entry counted; an entry with
\* now <= resetTime is not replaced.
C3_ExpiredWindowRestarts ==
    chk.key # "" =>
        LET after == rateLimitStore[chk.key]
            fresh == [count |-> 1, resetTime |-> now + 60000]
        IN  /\ (chk.before = NoEntry => ~chk.denied /\ chk.next /\ after = fresh)
            /\ (chk.before # NoEntry /\ now > chk.before.resetTime =>
                    ~chk.denied /\ chk.next /\ after = fresh)
            /\ (chk.before # NoEntry /\ now <= chk.before.resetTime =>
                    after.resetTime = chk.before.resetTime)

\* C3 case: a key that had used up its window comes back after resetTime.
C3_Witness ==
    /\ chk.key # ""
    /\ chk.before # NoEntry
    /\ chk.before.count > RATE_LIMIT
    /\ now > chk.before.resetTime
    /\ ~chk.denied
    /\ rateLimitStore[chk.key].count = 1

\* C4: a request the rate limiter denies is answered 429 with the fixed
\* message and does not reach the handler: no SELECT, no upstream call, and
\* the store and the set of upstream calls in flight are unchanged.
C4_DeniedNeverReachesHandler ==
    [][CheckStep /\ chk'.denied =>
          /\ ~chk'.next
          /\ ev'.status = 429 /\ ev'.body = TooManyRequests
          /\ ev'.reads = 0 /\ ~ev'.upstream
          /\ db' = db /\ pending' = pending]_vars

\* C4 case: a request was denied while the store holds rows.
C4_Witness ==
    /\ chk.denied
    /\ ev.status = 429
    /\ ev.reads = 0
    /\ Len(db.crypto) > 0

----------------------------------------------------------------------------
(* GET /aggregated-data properties *)

\* C5 (as claimed): every GET /aggregated-data returns 500 with an {error}
\* body when at least one of the three tables is empty.
C5_EmptyTableGives500 ==
    [][AggStep /\ AnyTableEmpty(db) =>
          ev'.status = 500 /\ IsErrorBody(ev'.body)]_vars

\* C5 (amended): a GET /aggregated-data that passes the rate limiter returns
\* 500 with an {error} body when at least one of the three tables is empty.
C5_AllowedEmptyTableGives500 ==
    [][AggStep /\ ~chk'.denied /\ AnyTableEmpty(db) =>
          ev'.status = 500 /\ IsErrorBody(ev'.body)]_vars

\* C5 case: 500 was answered with crypto and weather populated and news empty.
C5_Witness ==
    /\ ev.ep = "/aggregated-data"
    /\ ev.status = 500
    /\ ev.reads = 3
    /\ seedPc = "news"
    /\ Len(db.crypto) > 0 /\ Len(db.weather) > 0 /\ Len(db.news) = 0

\* C6: a rate-limit-allowed GET /aggregated-data returns 200 exactly when the
\* three tables are all non-empty, and then the body has the keys crypto,
\* weather and latest_news and holds the stored rows unchanged.
C6_AllowedAggregation ==
    [][AggStep /\ ~chk'.denied =>
          /\ (ev'.status = 200) <=> ~AnyTableEmpty(db)
          /\ ev'.status = 200 =>
                /\ DOMAIN ev'.body = {"crypto", "weather", "latest_news"}
                /\ ev'.body.crypto = db.crypto
                /\ <<ev'.body.weather>> = db.weather
                /\ ev'.body.latest_news = db.news]_vars

\* C6 case: 200 was answered with both coins and two articles.
C6_Witness ==
    /\ ev.ep = "/aggregated-data"
    /\ ev.status = 200
    /\ Len(ev.body.crypto) = 2
    /\ Len(ev.body.latest_news) = 2

\* C7 (as claimed): a GET /aggregated-data that follows another one with no
\* seed step and no /weather call in between returns the same status and body.
C7_RepeatedAggregationSame ==
    [][AggStep /\ aggLast.n >= 1 =>
          ev'.status = aggLast.status /\ ev'.body = aggLast.body]_vars

\* C7 (amended): the same, when both calls pass the rate limiter.
C7_RepeatedAllowedAggregationSame ==
    [][AggStep /\ aggLast.n >= 1 /\ ~aggLast.denied /\ ~chk'.denied =>
          ev'.status = aggLast.status /\ ev'.body = aggLast.body]_vars

\* C7 case: two allowed calls in a row were answered 200.
C7_Witness ==
    /\ aggLast.n = 2
    /\ ~aggLast.denied
    /\ aggLast.status = 200
    /\ chk.nth = 2
    /\ ev.ep = "/aggregated-data"

----------------------------------------------------------------------------
(* GET /weather properties *)

\* The upstream answered with a weather object whose condition list is empty.
EmptyConditionList(o) ==
    o.kind = "json" /\ "weather" \in DOMAIN o.body /\ Len(o.body.weather) = 0

\* The upstream call failed: the fetch threw, or the upstream sent an error reply.
UpstreamFailed(o) ==
    o.kind = "reject" \/ (o.kind = "json" /\ "cod" \in DOMAIN o.body)
UpstreamMessage(o) == IF o.kind = "reject" THEN o.message ELSE o.body.message

\* C8: when the upstream weather response has an empty condition list, the
\* response is 400 with an {error} body and no row is written.
C8_EmptyConditionListGives400 ==
    [][\A p \in pending, o \in FetchOutcomes(WeatherPayloads) :
          WeatherDone(p, o) /\ EmptyConditionList(o) =>
              ev'.status = 400 /\ IsErrorBody(ev'.body) /\ db' = db]_vars

\* C9 (as claimed): when the upstream call fails or throws, the response is
\* 500 with an {error} body carrying the upstream error message when there is
\* one and the generic message otherwise.
C9_UpstreamFailureSurfacesMessage ==
    [][\A p \in pending, o \in FetchOutcomes(WeatherPayloads) :
          WeatherDone(p, o) /\ UpstreamFailed(o) =>
              /\ ev'.status = 500
              /\ ev'.body = [error |-> IF UpstreamMessage(o) # ""
                                       THEN UpstreamMessage(o)
                                       ELSE "Failed to fetch weather."]]_vars

\* C9 (amended): when the upstream call fails or throws, the response is 500
\* with the generic {error} body, whether or not the upstream error has a message.
C9_UpstreamFailureGeneric500 ==
    [][\A p \in pending, o \in FetchOutcomes(WeatherPayloads) :
          WeatherDone(p, o) /\ UpstreamFailed(o) =>
              /\ ev'.status = 500
              /\ ev'.body = [error |-> "Failed to fetch weather."]]_vars

\* C9 case: a /weather call whose upstream fetch settled was answered 500.
C9_Witness ==
    /\ ev.ep = "/weather"
    /\ ev.upstream
    /\ ev.status = 500
    /\ pending = {}

\* C10 (as claimed): a 200 of GET /weather has city = the city parameter, or
\* the fallback city when the parameter is absent, and temperature and
\* condition from the upstream response (its first condition entry).
C10_WeatherResult ==
    [][\A p \in pending, o \in FetchOutcomes(WeatherPayloads) :
          WeatherDone(p, o) /\ ev'.status = 200 =>
              /\ ev'.body.city = IF "city" \in DOMAIN p.query
                                 THEN p.query.city ELSE "New York"
              /\ ev'.body.temperature = o.body.main.temp
              /\ ev'.body.condition = o.body.weather[1].main]_vars

\* C10 (amended): the same, with the fallback city also when the parameter
\* is the empty string.
C10_WeatherResultEmptyCityFallsBack ==
    [][\A p \in pending, o \in FetchOutcomes(WeatherPayloads) :
          WeatherDone(p, o) /\ ev'.status = 200 =>
              /\ ev'.body.city = IF "city" \in DOMAIN p.query /\ p.query.city # ""
                                 THEN p.query.city ELSE "New York"
              /\ ev'.body.temperature = o.body.main.temp
              /\ ev'.body.condition = o.body.weather[1].main]_vars

\* C10 case: 200 for a named city whose upstream response lists two conditions.
C10_Witness ==
    /\ ev.ep = "/weather"
    /\ ev.status = 200
    /\ ev.body.city = "Hanoi"
    /\ ev.body.condition = "Rain"

----------------------------------------------------------------------------
(* Seeding, then reading back *)

Settled(o) == DOMAIN o # {}
GotJson(o) == Settled(o) /\ o.kind = "json"
\* The crypto upstream answered with a bitcoin entry {usd, usd_market_cap}.
GotBitcoin(o) == GotJson(o) /\ IsCoin(o.body, "bitcoin")
\* The weather upstream answered with a condition, or was not asked yet.
WeatherGoodIfAsked(o) ==
    Settled(o) => /\ GotJson(o)
                  /\ WeatherApiSchema(o.body).ok
                  /\ o.body.weather[1].main # ""
\* The news upstream answered with at least one article, or was not asked yet.
NewsGoodIfAsked(o) == Settled(o) => GotJson(o) /\ NewsApiSchema(o.body).ok
BitcoinRow(body) ==
    [name |-> "Bitcoin", symbol |-> "BTC", price |-> body.bitcoin.usd,
     market_cap |-> body.bitcoin.usd_market_cap]
InSeq(x, seq) == \E i \in DOMAIN seq : seq[i] = x

----------------------------------------------------------------------------
(* Failure responses *)

\* The upstream answered, not with an error reply, but with weather data the
\* handler cannot use: rejected by the schema, or without a first condition.
MalformedUpstreamData(o) ==
    /\ o.kind = "json"
    /\ ~UpstreamFailed(o)
    /\ \/ ~WeatherApiSchema(o.body).ok
       \/ o.body.weather[1].main = ""

\* C12: every failure response (status 400 and up) has a body {error: string};
\* 429 is sent only to a request the rate limiter denied, 400 only when the
\* upstream data was malformed, 500 only when a table was empty
\* (/aggregated-data) or the upstream call failed or threw (/weather).
C12_StatusTellsCategory ==
    [][/\ \A c \in Clients, d \in Deltas :
             AggregatedDataRequest(c, d) /\ ev'.status >= 400 =>
                /\ IsErrorBody(ev'.body) /\ ev'.body.error \in STRING
                /\ ev'.status \in {429, 500}
                /\ ev'.status = 429 => chk'.denied
                /\ ev'.status = 500 => ~chk'.denied /\ AnyTableEmpty(db)
       /\ \A c \in Clients, d \in Deltas, q \in Queries :
             WeatherRequest(c, d, q) /\ ev' # ev =>
                /\ IsErrorBody(ev'.body) /\ ev'.body.error \in STRING
                /\ ev'.status = 429 /\ chk'.denied
       /\ \A p \in pending, o \in FetchOutcomes(WeatherPayloads) :
             WeatherDone(p, o) /\ ev'.status >= 400 =>
                /\ IsErrorBody(ev'.body) /\ ev'.body.error \in STRING
                /\ ev'.status \in {400, 500}
                /\ ev'.status = 400 => MalformedUpstreamData(o)
                /\ ev'.status = 500 => UpstreamFailed(o)]_vars

----------------------------------------------------------------------------
(* Rate limiter: frame and interleaving *)

\* C15: a Denied check leaves rateLimitStore as it was: the count and the
\* resetTime of the key, and the entry of every other key.
C15_DeniedLeavesStoreUnchanged ==
    [][CheckStep /\ chk'.denied => rateLimitStore' = rateLimitStore]_vars

\* C15 case: a request was denied while both keys had an entry.
C15_Witness ==
    /\ chk.denied
    /\ DOMAIN rateLimitStore = Keys
    /\ rateLimitStore[chk.key].count = RATE_LIMIT + 1

\* The checks of key k run one after the other in arrival order: win[k]
\* counts them per window (up to RATE_LIMIT + 2), the first RATE_LIMIT + 1
\* are counted in the entry and Allowed, the later ones Denied.
SerialCount(k) == Min(win[k].n, RATE_LIMIT + 1)

\* C16: whatever the interleaving of requests with /weather handlers
\* suspended at their upstream fetch, each key's entry is the one the serial
\* run of its checks gives (no increment is lost) and so is the outcome of
\* the latest check.
C16_ChecksAreSerial ==
    /\ DOMAIN rateLimitStore = DOMAIN win
    /\ \A k \in DOMAIN rateLimitStore :
          /\ rateLimitStore[k].count = SerialCount(k)
          /\ rateLimitStore[k].resetTime = win[k].start + WINDOW_MS
    /\ chk.key # "" => (chk.denied <=> chk.nth > RATE_LIMIT + 1)

\* C16 case: while a /weather handler of a key is suspended at its fetch,
\* two more requests of that key were checked and counted.
C16_Witness ==
    /\ pending # {}
    /\ chk.ep = "/aggregated-data"
    /\ chk.nth = 3
    /\ rateLimitStore[chk.key].count = 3

----------------------------------------------------------------------------
(* Seeding beside the readers *)

MidSeed == seedPc \in {"crypto", "weather", "news"}

\* C17: a GET /aggregated-data received while fetchAndStoreData() is between
\* two of its steps is served from the store as the cycle has left it so far:
\* empty before the crypto insert, crypto only before the weather insert,
\* crypto and weather before the news insert; the handler reads the three
\* tables and answers 500 "Data not available.".
C17_ReaderSeesPartialSeed ==
    [][AggStep /\ ~chk'.denied /\ MidSeed =>
          /\ ev'.reads = 3
          /\ ev'.status = 500 /\ ev'.body = DataNotAvailable
          /\ Len(db.news) = 0
          /\ Len(db.crypto) = IF seedPc = "crypto" THEN 0 ELSE 2
          /\ Len(db.weather) = IF seedPc = "news" THEN 1 ELSE 0]_vars

\* C17 case: a request was served between the crypto insert and the weather
\* insert and found crypto populated, weather and news empty.
C17_Witness ==
    /\ seedPc = "weather"
    /\ ev.ep = "/aggregated-data" /\ ev.reads = 3 /\ ev.status = 500
    /\ Len(db.crypto) = 2 /\ Len(db.weather) = 0 /\ Len(db.news) = 0

----------------------------------------------------------------------------
(* The standalone seeding scripts *)

\* A step of a standalone script.
ScriptStep ==
    \/ ScriptStart \/ ScriptConnect \/ ScriptDelete
    \/ ScriptFetchCrypto \/ ScriptInsertCrypto
    \/ ScriptFetchWeatherSingle \/ ScriptInsertWeatherSingle
    \/ ScriptFetchWeatherCity \/ ScriptInsertWeatherCity
    \/ ScriptFetchNews \/ ScriptInsertNews \/ ScriptFinally

ConfigMissing(e) ==
    e.DATABASE_URL = "" \/ e.OPENWEATHER_API_KEY = "" \/ e.NEWSAPI_API_KEY = ""

\* C13: a script started with the connection string or one of the two API
\* keys missing logs a message and exits at once, and no step of that run
\* changes the store: no table is cleared, no row inserted.
C13_MissingConfigLeavesStore ==
    [][ScriptStep /\ ConfigMissing(env) =>
          /\ sd.pc = "start"
          /\ sd'.pc = "exit"
          /\ sd'.log # {}
          /\ sd'.ops = <<>> /\ ~sd'.held
          /\ pg' = pg]_vars

\* C13 case: with only the news key missing the script has exited and the
\* rows of the store are still there.
C13_Witness ==
    /\ variant \in Scripts
    /\ env.DATABASE_URL # "" /\ env.OPENWEATHER_API_KEY # "" /\ env.NEWSAPI_API_KEY = ""
    /\ sd.pc = "exit"
    /\ sd.log # {}
    /\ pg = StalePg

\* The catch block of the script has run.
ScriptThrew(s) == "Error during data seeding:" \in s.log
Rejected(o) == Settled(o) /\ o.kind = "reject"
\* A step of the startup routine of index.ts.
SeedFetchStep == SeedCrypto \/ SeedWeather \/ SeedNews
\* The fetch of resource k of the startup routine threw (the fetch itself,
\* or the parse of its body).
SeedThrew(si, k) ==
    /\ Settled(si[k])
    /\ \/ si[k].kind = "reject"
       \/ k = "crypto" /\ ~CryptoApiSchema(si[k].body).ok
       \/ k = "weather" /\ ~WeatherApiSchema(si[k].body).ok
       \/ k = "news" /\ ~NewsApiSchema(si[k].body).ok

\* C14: when a step of a seed cycle throws, the error is logged, no later
\* step of the cycle runs, and the store stays as the earlier steps left
\* it: the throwing step and everything after it in that run change no
\* table (script), and the startup routine of index.ts ends with the tables
\* as they were.
C14_ThrowSkipsRestKeepsRows ==
    /\ [](variant \in Scripts =>
            /\ ScriptThrew(sd) => sd.pc \in {"finally", "exit"}
            /\ Rejected(sd.got.crypto) \/ Rejected(sd.got.news) => ScriptThrew(sd)
            /\ \A i \in DOMAIN sd.got.weather :
                  Rejected(sd.got.weather[i]) => ScriptThrew(sd))
    /\ [][ScriptStep /\ ScriptThrew(sd') => pg' = pg]_vars
    /\ [][SeedFetchStep /\ (\E k \in Tables : SeedThrew(seedIn', k)) =>
             seedPc' = "done" /\ db' = db]_vars
    /\ [](\A k \in Tables : SeedThrew(seedIn, k) => seedPc = "done")

\* C14 case: a script threw at the weather fetch after both coins were
\* inserted: the crypto rows are in the store, weather and news stay cleared.
C14_Witness ==
    /\ variant \in Scripts
    /\ ScriptThrew(sd)
    /\ sd.pc = "exit"
    /\ Len(sd.got.weather) = 1 /\ Rejected(sd.got.weather[1])
    /\ Len(pg.crypto) = 2 /\ pg.weather = <<>> /\ pg.news = <<>>

\* The store operations of a cycle in the order the scripts issue them.
FullOrder ==
    <<[op |-> "DELETE", table |-> "crypto"], [op |-> "DELETE", table |-> "weather"],
      [op |-> "DELETE", table |-> "news"], [op |-> "INSERT", table |-> "crypto"],
      [op |-> "INSERT", table |-> "weather"], [op |-> "INSERT", table |-> "news"]>>
Pos(x) == CHOOSE i \in DOMAIN FullOrder : FullOrder[i] = x
\* The script ran to the end of its try block.
ScriptCompleted(s) == "Data seeding complete!" \in s.log
\* The weather responses of the run that carried a condition to insert.
WithCondition(got) ==
    {i \in DOMAIN got.weather :
        /\ got.weather[i].kind = "response" /\ got.weather[i].ok
        /\ Len(got.weather[i].body.weather) > 0
        /\ got.weather[i].body.weather[1].main # ""}
\* The startup routine of index.ts ran to its end.
SeedCompleted ==
    seedPc = "done" /\ Settled(seedIn.news) /\ ~SeedThrew(seedIn, "news")

\* C18: in a seed cycle the three tables are cleared before the first
\* insert and the inserts go crypto, weather, news; after a completed cycle
\* the store holds exactly the rows of that cycle: one crypto row per coin
\* fetched, the weather rows of the cities that had a condition, one news
\* row per article, and no row of an earlier cycle or run.
C18_ClearedThenInsertedInOrder ==
    /\ variant \in Scripts =>
          /\ \A i, j \in DOMAIN sd.ops : i < j => Pos(sd.ops[i]) < Pos(sd.ops[j])
          /\ (\E i \in DOMAIN sd.ops : sd.ops[i].op = "INSERT") =>
                SubSeq(sd.ops, 1, 3) = SubSeq(FullOrder, 1, 3)
          /\ ScriptCompleted(sd) =>
                /\ Len(pg.crypto) = Len(sd.got.crypto.body)
                /\ \A i \in DOMAIN pg.crypto :
                      /\ pg.crypto[i].name = sd.got.crypto.body[i].name
                      /\ pg.crypto[i].price = sd.got.crypto.body[i].current_price
                      /\ pg.crypto[i].market_cap = sd.got.crypto.body[i].market_cap
                /\ Len(pg.weather) = Cardinality(WithCondition(sd.got))
                /\ \A i \in DOMAIN pg.weather :
                      pg.weather[i].city \in
                          IF variant = "seed.ts" THEN {"Ho Chi Minh"}
                          ELSE {cities[k] : k \in WithCondition(sd.got)}
                /\ Len(pg.news) = Len(sd.got.news.body.articles)
                /\ \A i \in DOMAIN pg.news :
                      pg.news[i].title = sd.got.news.body.articles[i].title
    /\ InProcess /\ seedPc # "start" =>
          /\ Len(db.weather) > 0 => Len(db.crypto) > 0
          /\ Len(db.news) > 0 => Len(db.weather) > 0
          /\ SeedCompleted =>
                /\ Len(db.crypto) = 2
                /\ db.crypto[1] = BitcoinRow(seedIn.crypto.body)
                /\ db.crypto[2].name = "Ethereum"
                /\ db.crypto[2].price = seedIn.crypto.body.ethereum.usd
                /\ Len(db.weather) = 1
                /\ db.weather[1].city = "Ho Chi Minh"
                /\ db.weather[1].condition = seedIn.weather.body.weather[1].main
                /\ Len(db.news) = Len(seedIn.news.body.articles)
                /\ \A i \in DOMAIN db.news :
                      db.news[i].title = seedIn.news.body.articles[i].title

\* C18 case: the second run of the multi-city script against the store
\* completed with two coins, both cities and two articles.
C18_Witness ==
    /\ variant = "part_002"
    /\ sd.run = 2
    /\ ScriptCompleted(sd)
    /\ Len(pg.crypto) = 2 /\ Len(pg.weather) = 2 /\ Len(pg.news) = 2
    /\ Len(sd.ops) = 6

\* The response o is OK and its body is rejected by the schema the script
\* parses it with.
GotBody(o) == o.kind = "response" /\ o.ok
CryptoRejected(o) == GotBody(o) /\ ~MarketsApiSchema(o.body).ok
WeatherRejected(o) ==
    /\ GotBody(o)
    /\ IF variant = "seed.ts" THEN ~WeatherApiSchema(o.body).ok
       ELSE ~WeatherApiSchemaMulti(o.body).ok
NewsRejected(o) == GotBody(o) /\ ~NewsApiSchema(o.body).ok
\* A fetch step of a script settles with a body its schema rejects.
ValidationErrorStep ==
    \/ ScriptFetchCrypto /\ CryptoRejected(sd'.got.crypto)
    \/ /\ ScriptFetchWeatherSingle \/ ScriptFetchWeatherCity
       /\ WeatherRejected(sd'.got.weather[Len(sd'.got.weather)])
    \/ ScriptFetchNews /\ NewsRejected(sd'.got.news)

\* C19 (as claimed): a payload rejected by the schema ends only its own
\* fetch step; the script goes on to fetch the next resource (after crypto
\* the weather, after the weather of a city the next city or the news).
C19_ValidationErrorContinues ==
    [][ValidationErrorStep /\ sd.pc # "fetch_news" =>
          sd'.pc \in {"fetch_weather", "fetch_news"}]_vars

\* C19 (amended): a payload rejected by the schema ends the whole cycle: the
\* error is caught and logged, the script goes straight to its finally
\* block, the store is left as it is, and no other resource is fetched in
\* that run.
C19_ValidationErrorAbortsCycle ==
    /\ [][ValidationErrorStep =>
             sd'.pc = "finally" /\ ScriptThrew(sd') /\ pg' = pg]_vars
    /\ [](variant \in Scripts =>
            /\ Settled(sd.got.crypto) /\ CryptoRejected(sd.got.crypto)
                  => sd.got.weather = <<>> /\ ~Settled(sd.got.news)
                     /\ sd.pc \in {"finally", "exit"}
            /\ \A i \in DOMAIN sd.got.weather :
                  WeatherRejected(sd.got.weather[i])
                  => i = Len(sd.got.weather) /\ ~Settled(sd.got.news)
                     /\ sd.pc \in {"finally", "exit"})

\* C19 case: the crypto body was rejected by the schema; the script ended
\* with empty tables, the weather and the news never fetched.
C19_Witness ==
    /\ variant \in Scripts
    /\ Settled(sd.got.crypto) /\ CryptoRejected(sd.got.crypto)
    /\ sd.pc = "exit"
    /\ sd.got.weather = <<>>
    /\ pg = EmptyDb

\* The weather response for city number i of the multi-city script was not OK.
NotOk(o) == o.kind = "response" /\ ~o.ok

\* C20: in the multi-city script a non-OK weather response for a city is
\* logged with a warning and the city is skipped: the step writes no row and
\* does not enter the catch block, the loop goes on with the next city (or,
\* after the last one, with the news fetch), and no weather row of that run
\* carries the city's name.
C20_NonOkCitySkipped ==
    /\ [][ScriptFetchWeatherCity /\ NotOk(sd'.got.weather[Len(sd'.got.weather)]) =>
             /\ pg' = pg
             /\ ("Failed to fetch weather for " \o cities[sd.i]) \in sd'.log
             /\ ~ScriptThrew(sd')
             /\ IF sd.i < Len(cities)
                THEN sd'.pc = "fetch_weather" /\ sd'.i = sd.i + 1
                ELSE sd'.pc = "fetch_news"]_vars
    /\ [](variant = "part_002" =>
            \A i \in DOMAIN sd.got.weather :
               NotOk(sd.got.weather[i]) =>
                  \A r \in DOMAIN pg.weather : pg.weather[r].city # cities[i])

\* C20 case: the first city got a non-OK response; the second city's row and
\* the news rows were still written and the script completed.
C20_Witness ==
    /\ variant = "part_002"
    /\ Len(sd.got.weather) = 2
    /\ NotOk(sd.got.weather[1])
    /\ Len(pg.weather) = 1 /\ pg.weather[1].city = "Hanoi"
    /\ Len(pg.news) > 0
    /\ ScriptCompleted(sd)

----------------------------------------------------------------------------
(* The gateway after its startup seed *)

\* fetchAndStoreData() has ended and left at least one table empty.
SeedFailed == seedPc = "done" /\ AnyTableEmpty(db)

----------------------------------------------------------------------------
(* Rate limiter: keys, windows, endpoints *)

\* C22: no step removes a key from rateLimitStore: the set of keys only grows.
C22_KeysOnlyGrow ==
    [][DOMAIN rateLimitStore \subseteq DOMAIN rateLimitStore']_vars

\* C22 case: both keys have an entry, and the entry of the key that was not
\* the latest to send a request is still there after its window expired.
C22_Witness ==
    /\ DOMAIN rateLimitStore = Keys
    /\ \E k \in Keys : k # chk.key /\ now > rateLimitStore[k].resetTime

\* C24: while a key's window is live (now <= resetTime) no request of the key,
\* Allowed or Denied, changes the entry's resetTime, which is WINDOW_MS after
\* the request that opened the window; the key's first request after
\* resetTime is Allowed, however many requests were denied before it.
C24_DeniedNeverPostpones ==
    [][CheckStep /\ chk'.key \in DOMAIN rateLimitStore =>
          LET k == chk'.key
              entry == rateLimitStore[k]
          IN  /\ entry.resetTime = win[k].start + WINDOW_MS
              /\ (now' <= entry.resetTime =>
                     rateLimitStore'[k].resetTime = entry.resetTime)
              /\ (now' > entry.resetTime =>
                     /\ ~chk'.denied
                     /\ rateLimitStore'[k].resetTime = now' + WINDOW_MS)]_vars

\* C24 case: a key that was denied in its window is Allowed again by the
\* request it makes one millisecond after the window's resetTime.
C24_Witness ==
    /\ chk.key # ""
    /\ chk.wasDenied
    /\ chk.before # NoEntry
    /\ now = chk.before.resetTime + 1
    /\ ~chk.denied
    /\ chk.nth = 1


\* C25: /aggregated-data and /weather use one entry per client address: a
\* request to either endpoint is Denied exactly when the address's live entry
\* already counts more than RATE_LIMIT Allowed requests of both endpoints
\* together, an Allowed request to either adds one to that same entry, so the
\* Allowed requests of a window over both endpoints stay within the one limit
\* the limiter enforces per key; GET / leaves the mapping untouched.
C25_EndpointsShareCounter ==
    /\ [](/\ DOMAIN rateLimitStore \subseteq Keys
          /\ \A k \in DOMAIN rateLimitStore :
                /\ rateLimitStore[k].count = SerialCount(k)
                /\ rateLimitStore[k].count <= RATE_LIMIT + 1)
    /\ [][CheckStep =>
             LET k == chk'.key
                 live == k \in DOMAIN rateLimitStore /\ now' <= rateLimitStore[k].resetTime
                 used == IF live THEN rateLimitStore[k].count ELSE 0
             IN  /\ k \in Keys
                 /\ chk'.denied <=> used > RATE_LIMIT
                 /\ ~chk'.denied => rateLimitStore'[k].count = used + 1]_vars
    /\ [][RootRequest => rateLimitStore' = rateLimitStore /\ chk' = chk]_vars

\* C25 case: in the first window of the only client a /weather request was
\* Allowed (its upstream call is still in flight) and a /aggregated-data
\* request is Denied, so fewer than RATE_LIMIT + 1 of the Allowed requests
\* were /aggregated-data requests.
C25_Witness ==
    /\ now = 0
    /\ pending # {}
    /\ chk.ep = "/aggregated-data"
    /\ chk.denied
    /\ rateLimitStore[chk.key].count = RATE_LIMIT + 1


\* C26: whether a request of key A is Allowed or Denied is determined by the
\* times of A's own earlier requests: it is Denied exactly when A's own window
\* (opened by A's first request after its previous window ended) is live and
\* already holds more than RATE_LIMIT requests of A, and a request of another
\* key changes neither A's entry nor A's window.
C26_KeysDoNotInterfere ==
    [][CheckStep =>
          LET k == chk'.key
              own == k \in DOMAIN win /\ now' <= win[k].start + WINDOW_MS
          IN  /\ chk'.denied <=> (own /\ win[k].n > RATE_LIMIT)
              /\ \A j \in DOMAIN rateLimitStore \ {k} :
                    /\ rateLimitStore'[j] = rateLimitStore[j]
                    /\ win'[j] = win[j]
              /\ DOMAIN rateLimitStore' = DOMAIN rateLimitStore \cup {k}]_vars

\* C26 case: a key makes its first request of a window and is Allowed while
\* the other key has used up its live window and has been Denied in it.
C26_Witness ==
    /\ chk.key # ""
    /\ ~chk.denied
    /\ chk.nth = 1
    /\ \E j \in DOMAIN rateLimitStore \ {chk.key} :
          /\ rateLimitStore[j].count = RATE_LIMIT + 1
          /\ win[j].n = RATE_LIMIT + 2
          /\ now <= rateLimitStore[j].resetTime


----------------------------------------------------------------------------
(* The startup seed and the readers *)

\* The rows a finished cycle stores, from what its three fetches returned.
SeededCrypto ==
    LET data == CryptoApiSchema(seedIn.crypto.body).data
    IN  <<CryptoRow("Bitcoin", "BTC", data.bitcoin),
          CryptoRow("Ethereum", "ETH", data.ethereum)>>
SeededWeather ==
    LET data == WeatherApiSchema(seedIn.weather.body).data
    IN  [city |-> SeedCity, temperature |-> data.main.temp,
         condition |-> data.weather[1].main]
SeededNews == NewsRows(NewsApiSchema(seedIn.news.body).data.articles)

\* C27: a 200 of GET /aggregated-data is given only after the startup cycle
\* has gone through its last step, and carries the whole cycle: both seeded
\* coins, the weather row and one row per fetched article, never a part of them.
C27_OkMeansFullySeeded ==
    [][AggStep /\ ev'.status = 200 =>
          /\ seedPc = "done"
          /\ seedIn.crypto # NoEntry /\ seedIn.weather # NoEntry /\ seedIn.news # NoEntry
          /\ ev'.body.crypto = SeededCrypto
          /\ ev'.body.weather = SeededWeather
          /\ ev'.body.latest_news = SeededNews
          /\ Len(SeededNews) = Len(seedIn.news.body.articles)]_vars

\* C27 case: the cycle fetched two articles and a request was answered 200
\* after it.
C27_Witness ==
    /\ seedPc = "done"
    /\ seedIn.news # NoEntry
    /\ seedIn.news.kind = "json"
    /\ seedIn.news.body = [articles |-> <<Article1, Article2>>]
    /\ ev.ep = "/aggregated-data"
    /\ ev.status = 200
    /\ ~chk.denied


\* The rows a previous run of the process left in app.db.
Range(q) == {q[i] : i \in DOMAIN q}
OldRows == Range(StaleDb.crypto) \cup Range(StaleDb.weather) \cup Range(StaleDb.news)
HoldsOldRow(d) == (Range(d.crypto) \cup Range(d.weather) \cup Range(d.news)) \cap OldRows # {}

----------------------------------------------------------------------------
(* The standalone seeding scripts: the store client and the pool *)

\* Every promise a script awaits settles: the step waiting for it is taken.
SpecSeedingFair == SpecSeeding /\ WF_vars(ScriptStep)

\* C29: a run that got a client from pool.connect() holds it until its
\* finally block, which is reached whether the cycle completes or a step
\* throws; there the client is released once and the pool ended once, and
\* the routine is over (a run that never got a client releases nothing).
C29_ClientReleasedPoolClosedOnce ==
    /\ [](/\ sd.released <= 1 /\ sd.ended <= 1
          /\ sd.held => (sd.released = 0 /\ sd.ended = 0 /\ sd.pc # "exit")
          /\ sd.pc = "exit" =>
                /\ ~sd.held
                /\ sd.released = sd.ended
                /\ sd.released = 0 <=> (sd.rejected \/ ConfigError(env) # ""))
    /\ [][sd.held /\ ~sd'.held =>
             sd'.released = 1 /\ sd'.ended = 1 /\ sd'.pc = "exit"]_vars
    /\ (sd.held ~> (sd.pc = "exit" /\ sd.released = 1 /\ sd.ended = 1))

\* C29 case: a run whose cycle threw after it had got its client is over,
\* with the client released and the pool ended.
C29_Witness ==
    /\ variant \in Scripts
    /\ ScriptThrew(sd)
    /\ sd.pc = "exit"
    /\ sd.released = 1 /\ sd.ended = 1 /\ ~sd.held


----------------------------------------------------------------------------
(* The dashboard *)

\* C23: debouncedKeyword, the keyword the news list is filtered by, changes
\* only when DebounceMs milliseconds have passed since the latest keystroke,
\* and then to the keyword typed last; a keystroke leaves one pending timer,
\* its own, with the full delay; and if typing stops for good,
\* debouncedKeyword ends up equal to the keyword in the box.
C23_DebouncedKeywordFollowsTyping ==
    /\ [][news'.debouncedKeyword # news.debouncedKeyword =>
             /\ news.idle >= DebounceMs
             /\ news'.keyword = news.keyword
             /\ news'.debouncedKeyword = news.keyword]_vars
    /\ [][news'.keyword # news.keyword =>
             news'.timers = <<[value |-> news'.keyword, left |-> DebounceMs]>>]_vars
    /\ (<>[][news'.keyword = news.keyword]_vars =>
            <>[](news.debouncedKeyword = news.keyword))

\* C23 case: "a" then "ab" were typed, the timer of "ab" has run after
\* DebounceMs without a keystroke, and the list is filtered by "ab".
C23_Witness ==
    /\ news.keyword = "ab"
    /\ news.debouncedKeyword = "ab"
    /\ news.timers = <<>>
    /\ ~news.armed
    /\ news.idle = DebounceMs

\* An updateWeather call gets its response.
UpdateDone == app.updating # <<>> /\ app'.updating = <<>>
SameCity(w, city) == toLowerCase(w.city) = toLowerCase(city)

\* C30: after updateWeather(c) got a 2xx response the weather list holds
\* exactly one entry whose city is c up to case, the response body, and the
\* entries of the other cities are as before, in order; after any other
\* outcome the list is as before and error is set.
C30_UpdateReplacesCityEntry ==
    [][UpdateDone =>
          LET c == app.updating[1]
              before == app.data.weather
              after == app'.data.weather
          IN  IF ResOk(app'.resp)
              THEN /\ Cardinality({i \in DOMAIN after : SameCity(after[i], c)}) = 1
                   /\ after[Len(after)] = app'.resp.body
                   /\ SameCity(after[Len(after)], c)
                   /\ SelectSeq(after, LAMBDA w : ~SameCity(w, c))
                        = SelectSeq(before, LAMBDA w : ~SameCity(w, c))
                   /\ app'.error = app.error
              ELSE /\ app'.data = app.data
                   /\ app'.error # <<>>
                   /\ app'.error[1] # ""]_vars


====
